---------------------------- MODULE Spec2Model ----------------------------
(***************************************************************************)
(* Model of src/openneuro-s3-downloader.py: the manifest query with its    *)
(* retry loop (_graphql_query, _get_dataset_files), the per-file streaming *)
(* multipart upload (_stream_to_s3), the bounded fan-out of                *)
(* download_dataset (asyncio.Semaphore + asyncio.gather) and the caller    *)
(* (main, asyncio.run).                                                    *)
(*                                                                         *)
(* One action is one step of the event loop: a coroutine runs from the     *)
(* await it was suspended at to its next await.  The boto3 calls           *)
(* (create_multipart_upload, upload_part, complete_multipart_upload,       *)
(* abort_multipart_upload) are synchronous, so they happen inside the step *)
(* that reaches them.  The remote API, the source servers and the object   *)
(* store are the environment: their answers are chosen with \E.            *)
(***************************************************************************)
EXTENDS Integers, Sequences, FiniteSets

(***************************************************************************)
(* Bounds of the model.                                                    *)
(***************************************************************************)
\* number of records in the manifest the remote API holds
NumRecords == 2
\* capacity of the semaphore: the code's Semaphore(10) (line 188), scaled so
\* that a manifest of NumRecords files has more files than slots
ConcurrencyLimit == 1
\* longest source stream, in chunks of CHUNK_SIZE bytes
MaxChunks == 2
\* number of failures the environment injects into the transfers of one run
MaxFaults == 2
\* longest list of candidate locations of a record
MaxUrls == 2

(***************************************************************************)
(* Program constants.                                                      *)
(***************************************************************************)
CHUNK_SIZE == 1024 * 1024
max_retries == 3
initial_retry_delay == 1

VARIABLES
    manifest,       \* environment: the dataset's records held by the remote API
    oPc,            \* position of download_dataset / main
    attempt,        \* _graphql_query: loop variable
    retry_delay,    \* _graphql_query: current delay
    requests,       \* number of session.post requests issued
    failedAttempts, \* number of attempts that raised
    query,          \* how _graphql_query ended
    response,       \* the response of the request in flight / last received
    warnings,       \* the logger.warning calls of _graphql_query, in order
    sleeps,         \* the delays passed to asyncio.sleep, in order
    files,          \* download_dataset: decoded manifest
    tasks,          \* download_dataset: the records a task was created for
    dsError,        \* the error download_dataset raised to its caller
    report,         \* what main logs for the dataset
    semaphore,      \* value of the asyncio.Semaphore
    pc,             \* per record: position of its task
    outcome,        \* per record: how its task ended
    error,          \* per record: the exception its task raised
    mpu,            \* per record: 'mpu' in locals() of _stream_to_s3
    parts,          \* per record: local list parts (part numbers)
    part_number,    \* per record: local part_number
    remaining,      \* environment: bytes left in the record's source stream
    status,         \* response.status of the record's source GET (0: none yet)
    download_url,   \* _stream_to_s3: the URL chosen for the record (<<>>: none)
    chunks,         \* per record: sizes of the non-empty chunks read so far
    session,        \* object store: state of the record's multipart upload
    uploaded,       \* object store: part numbers received by upload_part
    abortFailed,    \* per record: line 177 logged a failure of the abort
    submitted,      \* object store: Parts list received by complete
    calls,          \* per record: the source / store calls issued, in order
    faults          \* number of failures injected into transfers so far

vars == <<manifest, oPc, attempt, retry_delay, requests, failedAttempts,
          query, response, warnings,
          sleeps, files, tasks, dsError, report, semaphore, pc, outcome,
          error, mpu, parts, part_number, remaining, status, download_url,
          chunks, session, uploaded, abortFailed, submitted, calls, faults>>

fetchVars == <<attempt, retry_delay, requests, failedAttempts, query, response,
               warnings, sleeps>>
orchVars == <<manifest, oPc, files, tasks, dsError, report>>
taskVars == <<semaphore, pc, outcome, error, mpu, parts, part_number,
              remaining, status, download_url, chunks, session, uploaded,
              abortFailed, submitted, calls, faults>>

Records == 1..NumRecords

Min(a, b) == IF a < b THEN a ELSE b

(***************************************************************************)
(* The environment's answers.                                              *)
(***************************************************************************)
\* a response to the GraphQL post: HTTP status (0: the request raised, no
\* response), whether the payload has a top-level 'errors' entry, and its
\* 'data' entry: absent, the file list, or something that is no file list
Responses ==
    [status : {200, 500}, errors : BOOLEAN, data : {"absent", "files", "malformed"}]
    \cup {[status |-> 0, errors |-> FALSE, data |-> "absent"]}

NoResponse == [status |-> 0, errors |-> FALSE, data |-> "none"]

\* Candidate source locations.  A URL is the sequence of its pieces, so that
\* the text "s3://" can stand at its head (an S3 URI) or further in (an
\* https URL whose query string quotes an S3 URI)
HttpsUrl == <<"https://", "host/file">>
S3Url == <<"s3://", "bucket/file">>
QuotingUrl == <<"https://", "host/get?src=", "s3://", "bucket/file">>
Urls == {HttpsUrl, S3Url, QuotingUrl}

\* the non-empty lists of at most n candidate locations
UrlLists(n) == UNION {[1..k -> Urls] : k \in 1..n}

\* line 116: 's3://' in url, a substring test
Contains(url) == \E i \in 1..Len(url) : url[i] = "s3://"

\* line 116: the generator, consumed by next(): the first url of the list,
\* from position i on, that passes the test; line 117's default, the first
\* url of the list, when none does
RECURSIVE FirstMatch(_, _)
FirstMatch(urls, i) ==
    IF i > Len(urls) THEN urls[1]
    ELSE IF Contains(urls[i]) THEN urls[i]
    ELSE FirstMatch(urls, i + 1)

\* lines 116-117: next((url for url in file.urls if 's3://' in url),
\* file.urls[0])
DownloadUrl(urls) == FirstMatch(urls, 1)

\* lengths of a source stream, in bytes: empty, one full chunk, one byte
\* more than a chunk, and the longest
SourceLengths ==
    {0, CHUNK_SIZE, CHUNK_SIZE + 1, MaxChunks * CHUNK_SIZE}

Op(name, n) == [op |-> name, n |-> n]


(***************************************************************************)
(* Initial state: the downloader is constructed, main has not yet called   *)
(* download_dataset.                                                       *)
(***************************************************************************)
\* nothing has run yet
Idle ==
    /\ oPc = "init"
    /\ attempt = 0
    /\ retry_delay = initial_retry_delay
    /\ requests = 0
    /\ failedAttempts = 0
    /\ query = "none"
    /\ response = NoResponse
    /\ warnings = <<>>
    /\ sleeps = <<>>
    /\ files = <<>>
    /\ tasks = {}
    /\ dsError = "none"
    /\ report = "none"
    /\ semaphore = ConcurrencyLimit
    /\ pc = [f \in Records |-> "unscheduled"]
    /\ outcome = [f \in Records |-> "none"]
    /\ error = [f \in Records |-> "none"]
    /\ mpu = [f \in Records |-> FALSE]
    /\ parts = [f \in Records |-> <<>>]
    /\ part_number = [f \in Records |-> 1]
    /\ remaining = [f \in Records |-> 0]
    /\ status = [f \in Records |-> 0]
    /\ download_url = [f \in Records |-> <<>>]
    /\ chunks = [f \in Records |-> <<>>]
    /\ session = [f \in Records |-> "none"]
    /\ uploaded = [f \in Records |-> <<>>]
    /\ abortFailed = [f \in Records |-> FALSE]
    /\ submitted = [f \in Records |-> <<>>]
    /\ calls = [f \in Records |-> <<>>]
    /\ faults = 0

\* a record of the manifest: a directory, a file with an https and an S3
\* location, or a file with no location
FileRecords ==
    [directory : BOOLEAN, urls : {<<HttpsUrl, S3Url>>}]
    \cup {[directory |-> FALSE, urls |-> <<>>]}

\* the remote API holds a manifest of NumRecords records
Init ==
    /\ manifest \in [Records -> FileRecords]
    /\ Idle

(***************************************************************************)
(* _graphql_query (lines 55-83) and _get_dataset_files (lines 85-105).     *)
(***************************************************************************)
\* the exception one attempt raises for response r, "none" if it returns
AttemptError(r) ==
    IF r.status = 0 THEN "ClientError"                      \* session.post raised
    ELSE IF r.status # 200 THEN "GraphQL request failed"    \* lines 66-69
    ELSE IF r.errors THEN "GraphQL query failed"            \* lines 72-74
    ELSE IF r.data = "absent" THEN "KeyError"               \* line 76
    ELSE "none"

\* an attempt that returns the data of a payload that also carries errors
AttemptFails_data_wins(r) == AttemptError(r) # "none" /\ r.data # "files"

\* lines 66-78: the attempt raises into the except block
AttemptFails(r) == AttemptError(r) # "none"

\* a retry loop that compares with the wrong bound
LastAttempt_off_by_one(a) == a = max_retries

\* line 79: the attempt after which the exception is re-raised
LastAttempt(a) == a = max_retries - 1

\* a warning that reports the loop variable itself
Warning_zero_based(a, d) == [attempt |-> a, delay |-> d]

\* line 81: the warning names the attempt, counted from 1, and the delay
Warning(a, d) == [attempt |-> a + 1, delay |-> d]

\* a backoff that never grows
NextDelay_constant(d) == d

\* line 83: retry_delay *= 2
NextDelay(d) == d * 2

\* line 60: for attempt in range(max_retries)
InRange(a) == a < max_retries

\* a decoder that accepts whatever the query returned
Decodable_anything(data) == data \in {"files", "malformed", "none"}

\* lines 103-105: result['dataset']['draft']['files'] and OpenNeuroFile(**f)
\* succeed only on data of the manifest's shape
Decodable(data) == data = "files"

\* a fan-out that forgets the directory filter
Scheduled_unfiltered(fs) == DOMAIN fs

\* line 195: the records a task is created for
Scheduled(fs) == {f \in DOMAIN fs : ~fs[f].directory}

\* download_dataset after _graphql_query returned data: decode the records
\* (lines 103-105), create the semaphore and the tasks, await gather
\* (lines 185-196); a decoding error is raised to the caller (lines 198-200)
GetDatasetFiles(data) ==
    IF Decodable(data)
    THEN /\ files' = manifest
         /\ tasks' = Scheduled(manifest)
         /\ semaphore' = ConcurrencyLimit
         /\ pc' = [f \in Records |->
                     IF f \in Scheduled(manifest) THEN "pending" ELSE "unscheduled"]
         /\ oPc' = "gather"
         /\ dsError' = dsError
    ELSE /\ oPc' = "raised"
         /\ dsError' = "decode"
         /\ UNCHANGED <<files, tasks, semaphore, pc>>

\* main calls asyncio.run(download_dataset(id)), which enters _graphql_query
\* and issues the first request
DownloadDataset ==
    /\ oPc = "init"
    /\ attempt' = 0
    /\ retry_delay' = initial_retry_delay
    /\ requests' = requests + 1
    /\ query' = "running"
    /\ oPc' = "post"
    /\ UNCHANGED <<manifest, failedAttempts, response, warnings, sleeps, files,
                   tasks, dsError, report, taskVars>>

\* the response of the request in flight arrives (or the request raises)
PostReturns ==
    /\ oPc = "post"
    /\ \E r \in Responses :
        /\ response' = r
        /\ IF ~AttemptFails(r)
           THEN \* line 76: return result['data']
                /\ query' = "returned"
                /\ GetDatasetFiles(r.data)
                /\ UNCHANGED <<failedAttempts, warnings, sleeps>>
           ELSE IF LastAttempt(attempt)
           THEN \* lines 79-80: re-raise; download_dataset logs and re-raises
                /\ query' = "raised"
                /\ failedAttempts' = failedAttempts + 1
                /\ oPc' = "raised"
                /\ dsError' = AttemptError(r)
                /\ UNCHANGED <<warnings, sleeps, files, tasks, semaphore, pc>>
           ELSE \* lines 81-82: warn, sleep
                /\ failedAttempts' = failedAttempts + 1
                /\ warnings' = Append(warnings, Warning(attempt, retry_delay))
                /\ sleeps' = Append(sleeps, retry_delay)
                /\ oPc' = "sleep"
                /\ UNCHANGED <<query, dsError, files, tasks, semaphore, pc>>
    /\ UNCHANGED <<manifest, attempt, retry_delay, requests, report, outcome,
                   error, mpu, parts, part_number, remaining, status, chunks,
                   session, uploaded, abortFailed, submitted, calls, faults,
                   download_url>>

\* asyncio.sleep returns: line 83, then the next iteration of the loop; when
\* the loop is exhausted the function falls off its end and returns None
SleepReturns ==
    /\ oPc = "sleep"
    /\ retry_delay' = NextDelay(retry_delay)
    /\ attempt' = attempt + 1
    /\ IF InRange(attempt + 1)
       THEN /\ requests' = requests + 1
            /\ oPc' = "post"
            /\ UNCHANGED <<query, dsError, files, tasks, semaphore, pc>>
       ELSE /\ query' = "returned None"
            /\ GetDatasetFiles("none")
            /\ UNCHANGED requests
    /\ UNCHANGED <<manifest, failedAttempts, response, warnings, sleeps, report,
                   outcome, error, mpu, parts, part_number, remaining, status, chunks,
                   session, uploaded, abortFailed, submitted, calls, faults,
                   download_url>>

(***************************************************************************)
(* _stream_to_s3 (lines 107-178) under upload_with_semaphore (190-192).    *)
(***************************************************************************)
\* a semaphore that never blocks
Locked_never == FALSE

\* a semaphore that never lets a task in
Locked_always == TRUE

\* asyncio.Semaphore.locked(): no slot is free
Locked == semaphore = 0

\* an exit of "async with semaphore" that keeps the slot
Release_leak(s, n) == s

\* line 191: the exit of "async with semaphore" of n tasks, by return or by
\* exception: asyncio.Semaphore.release() for each
Release(s, n) == s + n

\* part numbers counted from zero
first_part_number_zero == 1 - 1

\* line 128: the first part number
first_part_number == 1

\* a part counter that is not advanced
NextPartNumber_stuck(n) == n

\* line 154: part_number += 1
NextPartNumber(n) == n + 1

\* a read that asks for two chunks at once
ReadSize_double == 2 * CHUNK_SIZE

\* line 135: the number of bytes one read asks for
ReadSize == CHUNK_SIZE

\* an except block that never aborts
AbortNeeded_never(f) == FALSE

\* an except block that aborts whether or not the upload was created
AbortNeeded_always(f) == TRUE

\* line 169: 'mpu' in locals()
AbortNeeded(f) == mpu[f]

\* an except block that calls abort a second time
AbortCalls_retry(f) ==
    IF AbortNeeded(f) THEN <<Op("abort", 0), Op("abort", 0)>> ELSE <<>>

\* lines 169-175: the store calls of the except block
AbortCalls(f) == IF AbortNeeded(f) THEN <<Op("abort", 0)>> ELSE <<>>

\* line 166: "except Exception" does not catch asyncio.CancelledError, which
\* derives from BaseException
CatchesCancelled == FALSE

\* an except block that lets the abort's error escape
Propagated_abort_error(e, abortOk) == IF abortOk THEN e ELSE "AbortError"

\* lines 176-178: the abort's error is caught and logged; the bare raise
\* re-raises the error the except block was entered with
Propagated(e, abortOk) == e

\* the number of failures a failing step injects: the failure itself, and the
\* failure of the abort that follows it
Injected(abortOk) == IF abortOk THEN 1 ELSE 2

\* lines 166-178 and the exit of "async with semaphore" (line 191): the except
\* block of a task that holds a slot; log is the task's calls up to the
\* failure, sem the semaphore's value while the task holds its slot
Raise(f, e, abortOk, log, sem) ==
    /\ abortOk \/ AbortNeeded(f)
    /\ faults + Injected(abortOk) <= MaxFaults
    /\ faults' = faults + Injected(abortOk)
    /\ session' = IF AbortNeeded(f) /\ abortOk
                  THEN [session EXCEPT ![f] = "Aborted"] ELSE session
    /\ abortFailed' = [abortFailed EXCEPT ![f] = ~abortOk]
    /\ calls' = [calls EXCEPT ![f] = log \o AbortCalls(f)]
    /\ error' = [error EXCEPT ![f] = Propagated(e, abortOk)]
    /\ outcome' = [outcome EXCEPT ![f] = "failed"]
    /\ pc' = [pc EXCEPT ![f] = "done"]
    /\ semaphore' = Release(sem, 1)

\* line 117: the default of next(), file.urls[0], is evaluated before next()
\* is called and raises IndexError on an empty list
DefaultRaises(urls) == Len(urls) = 0

\* the task got a slot: _stream_to_s3 runs up to "async with session.get"
\* (lines 109-130)
Enter(f) ==
    \E createOk \in BOOLEAN :
        IF files[f].directory
        THEN \* lines 109-111: return; the slot is released
             /\ createOk
             /\ pc' = [pc EXCEPT ![f] = "done"]
             /\ outcome' = [outcome EXCEPT ![f] = "skipped"]
             /\ UNCHANGED <<semaphore, error, mpu, parts, part_number, session,
                            abortFailed, calls, faults, download_url>>
        ELSE IF DefaultRaises(files[f].urls)
        THEN \* lines 116-117 raise IndexError before the try of line 119: no
             \* except block runs, the slot is released
             /\ createOk
             /\ pc' = [pc EXCEPT ![f] = "done"]
             /\ outcome' = [outcome EXCEPT ![f] = "failed"]
             /\ error' = [error EXCEPT ![f] = "IndexError"]
             /\ semaphore' = Release(semaphore - 1, 1)
             /\ UNCHANGED <<mpu, parts, part_number, session, abortFailed, calls,
                            faults, download_url>>
        ELSE IF createOk
        THEN \* lines 116-130
             /\ download_url' = [download_url EXCEPT ![f] = DownloadUrl(files[f].urls)]
             /\ mpu' = [mpu EXCEPT ![f] = TRUE]
             /\ session' = [session EXCEPT ![f] = "Open"]
             /\ parts' = [parts EXCEPT ![f] = <<>>]
             /\ part_number' = [part_number EXCEPT ![f] = first_part_number]
             /\ calls' = [calls EXCEPT ![f] =
                            calls[f] \o <<Op("create", 0), Op("get", 0)>>]
             /\ semaphore' = semaphore - 1
             /\ pc' = [pc EXCEPT ![f] = "get"]
             /\ UNCHANGED <<outcome, error, abortFailed, faults>>
        ELSE \* create_multipart_upload raised
             /\ download_url' = [download_url EXCEPT ![f] = DownloadUrl(files[f].urls)]
             /\ Raise(f, "SessionOpenError", TRUE,
                      Append(calls[f], Op("create", 0)), semaphore - 1)
             /\ UNCHANGED <<mpu, parts, part_number>>

\* The event loop runs the first steps of the tasks gather created in their
\* order, before it resumes any coroutine that waits (its queue of ready
\* callbacks is first-in first-out): every task has taken its first step
Started == \A g \in tasks : pc[g] # "pending"

\* first step of a task: "async with semaphore" (line 191)
TaskStart(f) ==
    /\ pc[f] = "pending"
    /\ \A g \in tasks : g < f => pc[g] # "pending"
    /\ IF Locked
       THEN /\ pc' = [pc EXCEPT ![f] = "waiting"]
            /\ UNCHANGED <<semaphore, outcome, error, mpu, parts, part_number,
                           session, abortFailed, calls, faults, download_url>>
       ELSE Enter(f)
    /\ UNCHANGED <<orchVars, fetchVars, remaining, status, chunks, uploaded,
                   submitted>>

\* a task blocked in semaphore.acquire() gets a slot
Wake(f) ==
    /\ pc[f] = "waiting"
    /\ Started
    /\ ~Locked
    /\ Enter(f)
    /\ UNCHANGED <<orchVars, fetchVars, remaining, status, chunks, uploaded,
                   submitted>>

\* a status check that lets every response through
StatusOk_any(st) == TRUE

\* line 131: response.status != 200 raises
StatusOk(st) == st = 200

\* the source answers the GET (line 130): the status check (131-132) and the
\* first read (135)
GetReturns(f) ==
    /\ pc[f] = "get"
    /\ Started
    /\ \E st \in {200, 404}, len \in SourceLengths, abortOk \in BOOLEAN :
        /\ status' = [status EXCEPT ![f] = st]
        /\ IF StatusOk(st)
           THEN
             /\ abortOk
             /\ remaining' = [remaining EXCEPT ![f] = len]
             /\ calls' = [calls EXCEPT ![f] = Append(calls[f], Op("read", ReadSize))]
             /\ pc' = [pc EXCEPT ![f] = "read"]
             /\ UNCHANGED <<semaphore, outcome, error, session, abortFailed,
                            faults>>
           ELSE
             /\ len = 0
             /\ Raise(f, "SourceStatusError", abortOk, calls[f], semaphore)
             /\ UNCHANGED remaining
    /\ UNCHANGED <<orchVars, fetchVars, mpu, parts, part_number, chunks,
                   uploaded, submitted, download_url>>

\* a read of the source returns (line 135): the upload of the chunk and the
\* next read (136-154), or the end of the stream and complete (156-164)
ReadReturns(f) ==
    /\ pc[f] = "read"
    /\ Started
    /\ \E readOk \in BOOLEAN, storeOk \in BOOLEAN, abortOk \in BOOLEAN :
        LET chunk == Min(ReadSize, remaining[f])
            pn == part_number[f]
        IN  IF ~readOk
            THEN \* the read raised
                 /\ storeOk
                 /\ Raise(f, "SourceReadError", abortOk, calls[f], semaphore)
                 /\ UNCHANGED <<parts, part_number, remaining, chunks,
                                uploaded, submitted>>
            ELSE IF chunk = 0
            THEN \* lines 136-137: break; lines 157-162: complete
                 /\ submitted' = [submitted EXCEPT ![f] = parts[f]]
                 /\ UNCHANGED <<parts, part_number, remaining, chunks, uploaded>>
                 /\ IF storeOk
                    THEN /\ abortOk
                         /\ session' = [session EXCEPT ![f] = "Completed"]
                         /\ calls' = [calls EXCEPT ![f] =
                                Append(calls[f], Op("complete", Len(parts[f])))]
                         /\ outcome' = [outcome EXCEPT ![f] = "succeeded"]
                         /\ pc' = [pc EXCEPT ![f] = "done"]
                         /\ semaphore' = Release(semaphore, 1)
                         /\ UNCHANGED <<error, abortFailed, faults>>
                    ELSE Raise(f, "CompletionError", abortOk,
                               Append(calls[f], Op("complete", Len(parts[f]))),
                               semaphore)
            ELSE \* lines 140-154: upload_part
                 /\ chunks' = [chunks EXCEPT ![f] = Append(chunks[f], chunk)]
                 /\ remaining' = [remaining EXCEPT ![f] = remaining[f] - chunk]
                 /\ UNCHANGED submitted
                 /\ IF storeOk
                    THEN /\ abortOk
                         /\ uploaded' = [uploaded EXCEPT ![f] = Append(uploaded[f], pn)]
                         /\ parts' = [parts EXCEPT ![f] = Append(parts[f], pn)]
                         /\ part_number' = [part_number EXCEPT ![f] = NextPartNumber(pn)]
                         /\ calls' = [calls EXCEPT ![f] = calls[f] \o
                                <<Op("upload_part", pn), Op("read", ReadSize)>>]
                         /\ UNCHANGED <<semaphore, pc, outcome, error, session,
                                        abortFailed, faults>>
                    ELSE /\ Raise(f, "PartUploadError", abortOk,
                                  Append(calls[f], Op("upload_part", pn)), semaphore)
                         /\ UNCHANGED <<uploaded, parts, part_number>>
    /\ UNCHANGED <<orchVars, fetchVars, mpu, status, download_url>>

(***************************************************************************)
(* download_dataset's gather (line 196) and main's asyncio.run (216-222).  *)
(***************************************************************************)
\* the tasks that have not finished
Live == {f \in Records : pc[f] \in {"pending", "waiting", "get", "read"}}

\* the tasks that hold a slot of the semaphore
Holders == {f \in Records : pc[f] \in {"get", "read"}}

\* every unfinished task is cancelled: CancelledError is raised at the await
\* the task is suspended at.  A task inside _stream_to_s3 leaves through
\* "async with semaphore", which releases its slot; the except block (line
\* 166) runs only if it catches CancelledError
CancelAll ==
    /\ pc' = [f \in Records |-> IF f \in Live THEN "done" ELSE pc[f]]
    /\ outcome' = [f \in Records |-> IF f \in Live THEN "cancelled" ELSE outcome[f]]
    /\ error' = [f \in Records |-> IF f \in Live THEN "CancelledError" ELSE error[f]]
    /\ semaphore' = Release(semaphore, Cardinality(Holders))
    /\ session' = [f \in Records |->
                     IF f \in Holders /\ CatchesCancelled /\ AbortNeeded(f)
                     THEN "Aborted" ELSE session[f]]
    /\ calls' = [f \in Records |->
                   IF f \in Holders /\ CatchesCancelled
                   THEN calls[f] \o AbortCalls(f) ELSE calls[f]]
    /\ UNCHANGED <<mpu, parts, part_number, remaining, status, download_url,
                   chunks, uploaded,
                   abortFailed, submitted, faults>>

\* a gather that returns when the first task has returned
AllReturned_any == \E f \in tasks : outcome[f] \in {"succeeded", "skipped"}

\* line 196: gather returns when the last task has returned
AllReturned == \A f \in tasks : outcome[f] \in {"succeeded", "skipped"}

\* gather returns, download_dataset returns, main logs success (line 219)
GatherReturns ==
    /\ oPc = "gather"
    /\ AllReturned
    /\ oPc' = "returned"
    /\ report' = "success"
    /\ UNCHANGED <<manifest, files, tasks, dsError, fetchVars, taskVars>>

\* gather raises the exception of a task that failed as soon as it failed
\* (no return_exceptions); download_dataset logs it and re-raises (198-200)
GatherRaises ==
    /\ oPc = "gather"
    /\ Started
    /\ \E f \in tasks :
        /\ outcome[f] = "failed"
        /\ dsError' = error[f]
    /\ oPc' = "raised"
    /\ UNCHANGED <<manifest, files, tasks, report, fetchVars, taskVars>>

\* download_dataset raised: asyncio.run cancels the tasks that are left and
\* waits for them, then main logs the failure and exits (lines 220-222)
Teardown ==
    /\ oPc = "raised"
    /\ report = "none"
    /\ CancelAll
    /\ report' = "failed"
    /\ UNCHANGED <<manifest, oPc, files, tasks, dsError, fetchVars>>

\* the run is interrupted (SIGINT): asyncio.run cancels the main task, and
\* with it gather and every task that is left
Interrupt ==
    /\ oPc \in {"post", "sleep", "gather"}
    /\ CancelAll
    /\ oPc' = "cancelled"
    /\ report' = "interrupted"
    /\ UNCHANGED <<manifest, files, tasks, dsError, fetchVars>>

Next ==
    \/ DownloadDataset
    \/ PostReturns
    \/ SleepReturns
    \/ \E f \in Records : TaskStart(f)
    \/ \E f \in Records : Wake(f)
    \/ \E f \in Records : GetReturns(f)
    \/ \E f \in Records : ReadReturns(f)
    \/ GatherReturns
    \/ GatherRaises
    \/ Teardown
    \/ Interrupt

Spec == Init /\ [][Next]_vars

(***************************************************************************)
(* The runs in which nothing fails and nobody interrupts: every source     *)
(* answers 200 and is read to its end, every store call returns.  The      *)
(* manifest query may still fail.                                          *)
(***************************************************************************)
\* the step of task f raises nothing
NoFailure(f) == outcome'[f] # "failed"

QuietTaskStart(f) == TaskStart(f) /\ NoFailure(f)
QuietWake(f) == Wake(f) /\ NoFailure(f)
QuietGetReturns(f) == GetReturns(f) /\ NoFailure(f)
QuietReadReturns(f) == ReadReturns(f) /\ NoFailure(f)

QuietNext ==
    \/ DownloadDataset
    \/ PostReturns
    \/ SleepReturns
    \/ \E f \in Records : QuietTaskStart(f)
    \/ \E f \in Records : QuietWake(f)
    \/ \E f \in Records : QuietGetReturns(f)
    \/ \E f \in Records : QuietReadReturns(f)
    \/ GatherReturns

\* The event loop runs every callback that is ready (its queue is first-in
\* first-out), and every request the program awaits is answered: each step
\* of the program that stays possible is eventually taken
Fairness ==
    /\ WF_vars(DownloadDataset)
    /\ WF_vars(PostReturns)
    /\ WF_vars(SleepReturns)
    /\ \A f \in Records : WF_vars(QuietTaskStart(f))
    /\ \A f \in Records : WF_vars(QuietWake(f))
    /\ \A f \in Records : WF_vars(QuietGetReturns(f))
    /\ \A f \in Records : WF_vars(QuietReadReturns(f))
    /\ WF_vars(GatherReturns)

\* every file of the manifest has a source
QuietInit ==
    /\ Init
    /\ \A f \in Records : ~manifest[f].directory => manifest[f].urls # <<>>

FairSpec == QuietInit /\ [][QuietNext]_vars /\ Fairness

(***************************************************************************)
(* The choice of the download URL (lines 116-117) on its own, over every   *)
(* non-empty list of at most MaxUrls candidate locations.                  *)
(***************************************************************************)
InitUrl ==
    /\ manifest \in [Records -> [directory : {FALSE}, urls : UrlLists(MaxUrls)]]
    /\ Idle

\* lines 116-117 for the file record f
ChooseUrl(f) ==
    /\ download_url[f] = <<>>
    /\ download_url' = [download_url EXCEPT ![f] = DownloadUrl(manifest[f].urls)]
    /\ UNCHANGED <<orchVars, fetchVars, semaphore, pc, outcome, error, mpu, parts,
                   part_number, remaining, status, chunks, session, uploaded,
                   abortFailed, submitted, calls, faults>>

NextUrl == \E f \in Records : ChooseUrl(f)

SpecUrl == InitUrl /\ [][NextUrl]_vars

(***************************************************************************)
(* Properties.                                                             *)
(***************************************************************************)
Iota(k) == [i \in 1..k |-> i]

\* the calls of one kind issued for record f, in order
CallsOf(f, name) == SelectSeq(calls[f], LAMBDA c : c.op = name)

\* the part numbers passed to upload_part for record f, in order
PartCalls(f) == [i \in 1..Len(CallsOf(f, "upload_part")) |->
                    CallsOf(f, "upload_part")[i].n]

NonDirectories == {f \in Records : ~manifest[f].directory}

\* the failures of a transfer after its upload was created
TransferFailures ==
    {"SourceStatusError", "SourceReadError", "PartUploadError", "CompletionError"}

\* C1: a task that created its multipart upload and then failed (source GET
\* status, read error, upload_part error, complete error) has called abort,
\* once and as its last store call, by the time it has finished; unless that
\* abort call itself failed, the session is Aborted, not Open
C1_AbortOnFailure ==
    \A f \in Records :
        (pc[f] = "done" /\ mpu[f] /\ error[f] \in TransferFailures) =>
            /\ Len(CallsOf(f, "abort")) = 1
            /\ calls[f][Len(calls[f])].op = "abort"
            /\ ~abortFailed[f] => session[f] = "Aborted"

\* a part upload failed after an earlier part was stored, and the upload was
\* aborted
C1_Witness ==
    \E f \in Records :
        /\ error[f] = "PartUploadError"
        /\ uploaded[f] # <<>>
        /\ session[f] = "Aborted"

\* C2: after a cancellation, a task that had created its upload has aborted
\* it, a task that had not started has created none, and a file whose
\* complete returned has no abort
C2_CancelAborts ==
    \A f \in Records :
        /\ (outcome[f] = "cancelled" /\ mpu[f]) => session[f] = "Aborted"
        /\ (outcome[f] = "cancelled" /\ ~mpu[f]) => session[f] = "none"
        /\ outcome[f] = "succeeded" => Len(CallsOf(f, "abort")) = 0

\* C3: when the run is over and exactly one transfer failed, with no other
\* failure injected and no interrupt, every other scheduled file was completed
C3_FailureContained ==
    (/\ report = "failed"
     /\ query = "returned"
     /\ faults = 1
     /\ Cardinality({f \in tasks : outcome[f] = "failed"}) = 1)
    => \A g \in tasks : outcome[g] # "failed" => session[g] = "Completed"

\* C4: when download_dataset returns or raises, every task it scheduled has
\* finished
C4_WaitsForAll ==
    oPc \in {"returned", "raised"} => \A f \in tasks : pc[f] = "done"

\* C5: the number of transfers inside _stream_to_s3 never exceeds the
\* semaphore's capacity
C5_BoundedConcurrency ==
    /\ Cardinality(Holders) <= ConcurrencyLimit
    /\ semaphore >= 0

\* every slot is taken and another task waits for one
C5_Witness ==
    /\ Cardinality(Holders) = ConcurrencyLimit
    /\ \E f \in Records : pc[f] = "waiting"

C7_SuccessMeansCompleted ==
    /\ \A f \in Records : outcome[f] = "succeeded" => session[f] = "Completed"
    /\ report = "success" => \A f \in NonDirectories : session[f] = "Completed"

\* a dataset of two files is reported as downloaded
C7_Witness ==
    /\ report = "success"
    /\ Cardinality(NonDirectories) = NumRecords

\* C8: at most max_retries requests; the first successful attempt returns at
\* once; when all attempts fail, the last attempt's error is raised; the
\* function never returns without a result
C8_Retries ==
    /\ requests <= max_retries
    /\ query = "returned" =>
          /\ ~AttemptFails(response)
          /\ requests = failedAttempts + 1
    /\ query = "raised" =>
          /\ requests = max_retries
          /\ failedAttempts = max_retries
          /\ dsError = AttemptError(response)
          /\ dsError # "none"
    /\ query # "returned None"

\* two attempts failed and the third returned
C8_Witness ==
    /\ query = "returned"
    /\ failedAttempts = 2
    /\ requests = 3

\* C9: the tasks created are the non-directory records, and nothing is done
\* for a directory record
C9_DirectoriesSkipped ==
    /\ tasks \subseteq NonDirectories
    /\ oPc \in {"gather", "returned"} =>
          Cardinality(tasks) = Cardinality(NonDirectories)
    /\ \A f \in Records : manifest[f].directory =>
          /\ pc[f] = "unscheduled"
          /\ calls[f] = <<>>
          /\ session[f] = "none"

\* a manifest with a directory and a file, the file being transferred
C9_Witness ==
    /\ oPc = "gather"
    /\ \E f \in Records : manifest[f].directory
    /\ \E f \in Records : session[f] = "Open"

\* the manifest fetch failed: the retries were exhausted, or the data is no
\* file list
FetchFailed ==
    \/ query = "raised"
    \/ query = "returned" /\ response.data # "files"

\* C10: when the manifest fetch fails, download_dataset raises and nothing
\* was done for any file
C10_FetchFailureIsFatal ==
    FetchFailed =>
        /\ oPc = "raised"
        /\ dsError # "none"
        /\ tasks = {}
        /\ semaphore = ConcurrencyLimit
        /\ \A f \in Records :
              pc[f] = "unscheduled" /\ calls[f] = <<>> /\ session[f] = "none"

\* the query returned data that is no file list
C10_Witness ==
    /\ query = "returned"
    /\ response.data = "malformed"
    /\ oPc = "raised"

\* C11: no session receives more than one abort call or more than one
\* complete call, and a session whose complete returned receives no abort:
\* complete is then its last call
C11_OneTerminalCall ==
    \A f \in Records :
        /\ Len(CallsOf(f, "abort")) <= 1
        /\ Len(CallsOf(f, "complete")) <= 1
        /\ session[f] = "Completed" =>
              /\ Len(CallsOf(f, "abort")) = 0
              /\ calls[f][Len(calls[f])].op = "complete"
        /\ session[f] = "Aborted" => outcome[f] # "succeeded"

\* complete raised for a session, which was then aborted: one call of each
C11_Witness ==
    \E f \in Records :
        /\ error[f] = "CompletionError"
        /\ session[f] = "Aborted"
        /\ Len(CallsOf(f, "complete")) = 1
        /\ Len(CallsOf(f, "abort")) = 1

\* C12: whenever complete was called for a file, its session had been created
\* and the Parts list given to complete was not empty
C12_CompleteHasParts ==
    \A f \in Records :
        Len(CallsOf(f, "complete")) > 0 =>
            /\ calls[f][1].op = "create"
            /\ submitted[f] # <<>>

RECURSIVE Pow2(_)
Pow2(n) == IF n = 0 THEN 1 ELSE 2 * Pow2(n - 1)

\* C13: the i-th suspension of _graphql_query lasts initial_retry_delay *
\* 2^(i-1) seconds; there is one suspension per failed attempt that is
\* followed by another attempt, none after a successful attempt and none
\* after the last failed attempt
C13_Backoff ==
    /\ sleeps = [i \in 1..Len(sleeps) |-> initial_retry_delay * Pow2(i - 1)]
    /\ Len(sleeps) = IF query = "raised" THEN failedAttempts - 1 ELSE failedAttempts
    /\ Len(sleeps) <= max_retries - 1

\* two attempts failed and the third returned: suspensions of 1 and 2 seconds
C13_Witness ==
    /\ query = "returned"
    /\ sleeps = <<1, 2>>

\* C14 as stated: the number of warnings equals the number of failed
\* attempts, the last one included
C14_WarningPerFailure == Len(warnings) = failedAttempts

\* C14 as amended: every failed attempt that is followed by a retry emits one
\* warning with its attempt number (from 1) and the delay of the suspension
\* that follows; the attempt that exhausts the budget emits none
C14_WarningPerRetry ==
    /\ Len(warnings) = Len(sleeps)
    /\ \A i \in 1..Len(warnings) :
          warnings[i] = [attempt |-> i, delay |-> sleeps[i]]
    /\ Len(warnings) = IF query = "raised" THEN failedAttempts - 1 ELSE failedAttempts
    /\ Len(warnings) <= max_retries - 1

\* the budget is exhausted: three failed attempts, two warnings
C14_Witness ==
    /\ query = "raised"
    /\ failedAttempts = 3
    /\ Len(warnings) = 2

\* C15: every read asks for at most CHUNK_SIZE bytes; reads and upload_part
\* calls alternate, a read first (an upload_part directly follows the read of
\* its chunk, and the next read follows that upload_part); every non-empty
\* chunk read was passed to upload_part, in order, so that at most one chunk
\* is held; the read that precedes complete is the empty one, with no upload
C15_SequentialRelay ==
    \A f \in Records :
        /\ \A i \in 1..Len(calls[f]) :
              /\ calls[f][i].op = "read" => calls[f][i].n <= CHUNK_SIZE
              /\ calls[f][i].op = "upload_part" =>
                    /\ i > 1 /\ calls[f][i - 1].op = "read"
                    /\ i < Len(calls[f]) => calls[f][i + 1].op \in {"read", "abort"}
              /\ (calls[f][i].op = "read" /\ i < Len(calls[f])) =>
                    calls[f][i + 1].op \in {"upload_part", "complete", "abort"}
              /\ calls[f][i].op = "complete" =>
                    /\ calls[f][i - 1].op = "read"
                    /\ remaining[f] = 0
        /\ Len(CallsOf(f, "upload_part")) = Len(chunks[f])
        /\ \A i \in 1..Len(chunks[f]) :
              chunks[f][i] >= 1 /\ chunks[f][i] <= CHUNK_SIZE
        /\ Len(chunks[f]) - Len(uploaded[f]) \in {0, 1}

\* a source of two full chunks was relayed: three reads, two uploads, and the
\* upload was completed
C15_Witness ==
    \E f \in Records :
        /\ chunks[f] = <<CHUNK_SIZE, CHUNK_SIZE>>
        /\ Len(CallsOf(f, "read")) = 3
        /\ session[f] = "Completed"

\* the store or source call whose failure raises error e
Trigger(e) ==
    CASE e = "SourceStatusError" -> "get"
      [] e = "SourceReadError" -> "read"
      [] e = "PartUploadError" -> "upload_part"
      [] e = "CompletionError" -> "complete"
      [] OTHER -> "none"

\* C16: a response whose status is not 200 is a source failure; after a
\* source failure or a rejected upload_part the task has finished with that
\* error, the failing call is followed in its log by the abort and by nothing
\* else, so no read, upload_part or complete comes after it; the rejected
\* part is not recorded
C16_StopsAfterFailure ==
    \A f \in Records :
        /\ status[f] \notin {0, 200} => error[f] = "SourceStatusError"
        /\ error[f] = "SourceStatusError" =>
              status[f] \notin {0, 200} /\ Len(CallsOf(f, "read")) = 0
        /\ error[f] \in {"SourceStatusError", "SourceReadError", "PartUploadError"} =>
              /\ pc[f] = "done"
              /\ outcome[f] = "failed"
              /\ Len(CallsOf(f, "complete")) = 0
              /\ Len(calls[f]) >= 3
              /\ calls[f][Len(calls[f])].op = "abort"
              /\ calls[f][Len(calls[f]) - 1].op = Trigger(error[f])
              /\ Len(CallsOf(f, "abort")) = 1
        /\ error[f] = "PartUploadError" =>
              Len(uploaded[f]) = Len(CallsOf(f, "upload_part")) - 1

\* the source answered 404: the transfer stopped before any read and aborted
C16_Witness ==
    \E f \in Records :
        /\ status[f] = 404
        /\ error[f] = "SourceStatusError"
        /\ calls[f] = <<Op("create", 0), Op("get", 0), Op("abort", 0)>>

\* the number of upload_part calls among the first k calls for record f
PartsBefore(f, k) == Len(SelectSeq(SubSeq(calls[f], 1, k), LAMBDA c : c.op = "upload_part"))

\* C17: every upload_part call for a file comes after the create call for
\* that file, which returned, and before any complete or abort call for it;
\* its part number is 1 plus the number of upload_part calls before it
C17_UploadWhileOpen ==
    \A f \in Records :
        \A i \in 1..Len(calls[f]) :
            calls[f][i].op = "upload_part" =>
                /\ mpu[f]
                /\ calls[f][1].op = "create"
                /\ \A j \in 1..(i - 1) : calls[f][j].op \notin {"complete", "abort"}
                /\ calls[f][i].n = 1 + PartsBefore(f, i - 1)

\* parts 1 and 2 were uploaded and the upload was then aborted: no
\* upload_part followed the abort
C17_Witness ==
    \E f \in Records :
        /\ PartCalls(f) = <<1, 2>>
        /\ session[f] = "Aborted"

\* C18: when the abort that follows a failed transfer fails too, the task's
\* error is the error of the call that failed before the abort, the abort was
\* called once, and neither the task nor download_dataset raises the abort's
\* error
C18_AbortFailureSwallowed ==
    /\ dsError # "AbortError"
    /\ \A f \in Records :
          /\ error[f] # "AbortError"
          /\ abortFailed[f] =>
                /\ pc[f] = "done"
                /\ outcome[f] = "failed"
                /\ error[f] \in TransferFailures
                /\ Len(CallsOf(f, "abort")) = 1
                /\ calls[f][Len(calls[f])].op = "abort"
                /\ calls[f][Len(calls[f]) - 1].op = Trigger(error[f])
                /\ session[f] = "Open"

\* a read failed, the abort failed, and download_dataset raised the read error
C18_Witness ==
    \E f \in Records :
        /\ abortFailed[f]
        /\ error[f] = "SourceReadError"
        /\ oPc = "raised"
        /\ dsError = "SourceReadError"

\* a response with a status other than 200, or a payload with an 'errors'
\* entry
Rejected(r) == r.status \notin {0, 200} \/ (r.status = 200 /\ r.errors)

\* C19: _graphql_query returns only on a response of status 200 without an
\* 'errors' entry; while the last response received is a rejected one, its
\* attempt was counted as failed, no data was returned, and either the retry
\* is under way (sleeping, or the next request issued) with attempts left, or
\* all max_retries attempts have failed and the query raised
C19_RejectedResponseFails ==
    /\ query = "returned" => response.status = 200 /\ ~response.errors
    /\ Rejected(response) =>
          /\ query \in {"running", "raised"}
          /\ failedAttempts >= 1
          /\ files = <<>>
          /\ tasks = {}
          /\ oPc \in {"sleep", "post"} =>
                /\ failedAttempts < max_retries
                /\ attempt = (IF oPc = "sleep" THEN failedAttempts - 1 ELSE failedAttempts)
                /\ requests = (IF oPc = "sleep" THEN failedAttempts ELSE failedAttempts + 1)
          /\ query = "raised" => failedAttempts = max_retries

\* a 200 response with both data and errors failed its attempt: the query
\* sleeps before the retry
C19_Witness ==
    /\ response = [status |-> 200, errors |-> TRUE, data |-> "files"]
    /\ oPc = "sleep"
    /\ failedAttempts = 1

\* a location denotes a direct-storage URI: its scheme is s3
IsS3Uri(url) == url[1] = "s3://"

\* the positions of the list that hold a direct-storage URI
S3Positions(urls) == {i \in 1..Len(urls) : IsS3Uri(urls[i])}

\* the least element of a non-empty set of numbers
Least(S) == CHOOSE i \in S : \A j \in S : i <= j

\* C20: for every non-empty list of candidate locations the URL chosen is
\* the location at the lowest position that is a direct-storage (s3://) URI
\* if the list has one, and the first location of the list otherwise
C20_PrefersS3Uri ==
    \A f \in Records :
        download_url[f] # <<>> =>
            LET urls == manifest[f].urls
            IN  download_url[f] = IF S3Positions(urls) # {}
                                  THEN urls[Least(S3Positions(urls))]
                                  ELSE urls[1]

\* the run left the case of C21: the manifest fetch failed, a transfer
\* failed, or the run was interrupted
Disturbed ==
    \/ oPc \in {"raised", "cancelled"}
    \/ \E f \in Records : outcome[f] \in {"failed", "cancelled"}

\* download_dataset returned and every file of the manifest was completed
AllCompleted ==
    /\ oPc = "returned"
    /\ report = "success"
    /\ \A f \in NonDirectories :
          outcome[f] = "succeeded" /\ session[f] = "Completed"

\* C21: under fair scheduling, in the runs in which no source or store call
\* fails, every task that waits for a slot of the semaphore eventually gets
\* one, and, unless the manifest fetch fails, download_dataset eventually
\* returns with every file of the manifest completed; this covers manifests
\* with more files than slots
C21_EveryFileCompletes ==
    /\ <>(Disturbed \/ AllCompleted)
    /\ \A f \in Records :
          (pc[f] = "waiting") ~> (Disturbed \/ pc[f] \in {"get", "read", "done"})

\* a manifest with more files than slots was transferred without a failure
C21_Witness ==
    /\ AllCompleted
    /\ ~Disturbed
    /\ Cardinality(NonDirectories) > ConcurrencyLimit
    /\ semaphore = ConcurrencyLimit

\* C22: the slots held (the capacity minus the free slots) are as many as
\* the tasks inside _stream_to_s3, the free slots never exceed the capacity,
\* and once every task has finished, by success, failure or cancellation,
\* every slot is free again
C22_NoSlotLeak ==
    /\ semaphore \in 0..ConcurrencyLimit
    /\ ConcurrencyLimit - semaphore = Cardinality(Holders)
    /\ Live = {} => semaphore = ConcurrencyLimit

\* a transfer failed and another task holds a slot after it, although the
\* files are more than the slots: the failure gave its slot back
C22_Witness ==
    \E f, g \in Records :
        /\ outcome[f] = "failed"
        /\ mpu[f]
        /\ g \in Holders
        /\ Cardinality(tasks) > ConcurrencyLimit

\* C23: for a file whose create_multipart_upload raised, create is the only
\* call made: no GET, upload_part, complete or abort, no session, and the
\* task failed with the error of the create; a file with no candidate
\* location fails with the IndexError of line 117 before any call is made
C23_NothingWithoutSession ==
    \A f \in Records :
        /\ error[f] = "SessionOpenError" =>
              /\ calls[f] = <<Op("create", 0)>>
              /\ session[f] = "none"
              /\ ~mpu[f]
              /\ pc[f] = "done" /\ outcome[f] = "failed"
        /\ (f \in tasks /\ files[f].urls = <<>> /\ pc[f] = "done"
               /\ outcome[f] # "cancelled") =>
              /\ error[f] = "IndexError"
              /\ outcome[f] = "failed"
        /\ error[f] = "IndexError" =>
              /\ files[f].urls = <<>>
              /\ calls[f] = <<>>
              /\ session[f] = "none"
              /\ ~mpu[f]
        /\ session[f] = "none" => Len(CallsOf(f, "abort")) = 0

\* one file failed at create_multipart_upload, another had no location
C23_Witness ==
    \E f, g \in Records :
        /\ error[f] = "SessionOpenError"
        /\ error[g] = "IndexError"

=============================================================================
